---- MODULE Spec2Model ----
(***************************************************************************)
(* Model of MCPClient.process_query and MCPClient.chat_loop                *)
(* (src/client.py).  One step of the model is the code that runs between   *)
(* two awaits: a request is issued at the end of a step and the next step  *)
(* consumes its reply (or its failure).                                    *)
(*                                                                         *)
(* Python values are records tagged by t: a str is [t: "str", v], None is  *)
(* [t: "none"], a parsed JSON object is [t: "obj", ...], a TextContent     *)
(* wrapper is [t: "text", text].  The emoji that open the transcript lines *)
(* in the source are left out of the prefixes (the module is ASCII).       *)
(***************************************************************************)
EXTENDS Integers, Sequences, FiniteSets, TLC

\* ------------------------------------------------------------------ bounds

\* longest batch of tool calls an initial completion returns in the model
MaxCalls == 2

\* ------------------------------------------------------------ Python values

None == [t |-> "none"]

Str(s) == [t |-> "str", v |-> s]

List(items) == [t |-> "list", v |-> items]

\* the result of json.loads when it raises
JSONDecodeError == [t |-> "raise"]

\* json.loads on the texts of the model: the compact and the indented form of
\* an object decode to the same object, anything else raises
json_loads(s) ==
    IF s.t # "str" THEN JSONDecodeError
    ELSE IF s.v \in {"{\"patient_id\":\"PT-1001\"}", "{\n  \"patient_id\": \"PT-1001\"\n}"}
         THEN [t |-> "obj", patient_id |-> "PT-1001"]
    ELSE IF s.v \in {"{\"id\":\"PT-1001\",\"name\":\"Jane Doe\"}",
                     "{\n  \"id\": \"PT-1001\",\n  \"name\": \"Jane Doe\"\n}"}
         THEN [t |-> "obj", id |-> "PT-1001", name |-> "Jane Doe"]
    ELSE JSONDecodeError

\* json.dumps(parsed, indent=2)
json_dumps_indent2(parsed) ==
    IF "patient_id" \in DOMAIN parsed
    THEN "{\n  \"patient_id\": \"" \o parsed.patient_id \o "\"\n}"
    ELSE "{\n  \"id\": \"" \o parsed.id \o "\",\n  \"name\": \"" \o parsed.name \o "\"\n}"

\* str(x) of a str or of None
str(x) == IF x.t = "str" THEN x.v ELSE "None"

\* "\n".join(lines)
RECURSIVE join(_)
join(lines) ==
    IF lines = <<>> THEN ""
    ELSE IF Len(lines) = 1 THEN lines[1]
    ELSE lines[1] \o "\n" \o join(Tail(lines))

StartsWith(s, p) == Len(s) >= Len(p) /\ SubSeq(s, 1, Len(p)) = p

\* --------------------------------------------------------- the environment

\* what the user types at the prompt
Queries == {"list patients", "fetch PT-1001"}

\* snapshots of the remote process's tool list (src/server.py); description
\* is optional in a remote entry
list_patients_tool ==
    [name |-> "list_patients_tool", description |-> Str("List all available patient IDs and names"),
     inputSchema |-> "schema:list_patients"]

fetch_patient_data_tool ==
    [name |-> "fetch_patient_data_tool", description |-> None,
     inputSchema |-> "schema:fetch_patient_data"]

Registries == { <<list_patients_tool>>, <<fetch_patient_data_tool, list_patients_tool>> }

\* the tool-call requests the completion endpoint emits: well-formed JSON
\* arguments, malformed arguments, no arguments, and an entry without
\* "function"
ToolCallRequests ==
    { [id |-> "call_1", function |-> [name |-> "fetch_patient_data_tool",
                                      arguments |-> Str("{\"patient_id\":\"PT-1001\"}")]],
      [id |-> "call_2", function |-> [name |-> "fetch_patient_data_tool",
                                      arguments |-> Str("{invalid json")]],
      [id |-> "call_3", function |-> [name |-> "list_patients_tool"]],
      [id |-> "call_4"] }

RECURSIVE SeqsUpTo(_, _)
SeqsUpTo(S, n) ==
    IF n = 0 THEN { <<>> }
    ELSE LET shorter == SeqsUpTo(S, n - 1)
         IN shorter \cup { Append(s, x) : s \in { q \in shorter : Len(q) = n - 1 }, x \in S }

\* bodies of a 200 response of the completion endpoint: a message with
\* optional content and optional tool_calls, a message whose tool_calls is
\* null, a message whose content is a list of parts instead of a string, and
\* a body without choices
Messages ==
    { [content |-> c, tool_calls |-> List(tc)] :
        c \in {None, Str("Here are the patients.")}, tc \in SeqsUpTo(ToolCallRequests, MaxCalls) }
    \cup { [content |-> Str("Here are the patients.")] }
    \cup { [content |-> Str("Here are the patients."), tool_calls |-> None] }
    \cup { [content |-> List(<< [type |-> "text", text |-> "Here are the patients."] >>)] }

CompletionBodies == { [choices |-> <<[message |-> m]>>] : m \in Messages } \cup { [choices |-> <<>>] }

\* bodies of a non-200 response to the initial request and to a follow-up
ErrorBodies == { [error |-> "rate_limit_exceeded"], [message |-> "bad gateway"] }

FollowupErrorBodies == { [error |-> "rate_limit_exceeded"] }

\* bodies of a 200 response to a follow-up request; the message may ask for
\* a further tool call
FollowupBodies ==
    { [choices |-> <<[message |->
          [content |-> Str("Jane Doe is stable."),
           tool_calls |-> List(<< [id |-> "call_5",
                                   function |-> [name |-> "check_medication_interactions_tool",
                                                 arguments |-> Str("{}")]] >>)]]>>],
      [choices |-> <<>>],
      [choices |-> <<[finish_reason |-> "stop"]>>] }

\* replies of the remote process to call_tool(tool_name, ...): the content is
\* a TextContent wrapper or a plain value, JSON or not, and the error
\* attribute is set, clear or absent
ToolResults(tool_name) ==
    IF tool_name = "fetch_patient_data_tool"
    THEN { [content |-> [t |-> "text", text |-> Str("{\"id\":\"PT-1001\",\"name\":\"Jane Doe\"}")],
            error |-> FALSE],
           [content |-> [t |-> "text", text |-> Str("Patient PT-9999 not found")], error |-> TRUE] }
    ELSE { [content |-> Str("3 patients on file")],
           [content |-> Str("{\"patient_id\":\"PT-1001\"}"), error |-> TRUE] }

\* texts of the exceptions the channel and the HTTP client raise
ChannelError == "Connection closed"
HttpError == "Cannot connect to host api.groq.com:443"

\* -------------------------------------------------------------------- state

VARIABLES
    pc,          \* where chat_loop / process_query is suspended
    query,       \* the query being processed
    messages,    \* process_query: the turn history
    final_text,  \* process_query: the transcript lines
    groq_tools,  \* process_query: the tool schema in the endpoint's format
    tool_calls,  \* process_query: msg.get("tool_calls", []), a list or None
    idx,         \* position in tool_calls of the call being processed (0: none)
    output,      \* the value process_query returned
    registry,    \* the remote process's current tool list
    inflight,    \* the outstanding requests (positions in sent)
    sent,        \* history: the requests issued for the current query
    replies,     \* history: the reply to each request of sent
    origin,      \* history: for each line of final_text, the call it belongs to
    last,        \* history: how the previous query ended ("none" before the first)
    logged       \* what process_query printed for the current query

vars == <<pc, query, messages, final_text, groq_tools, tool_calls, idx, output,
          registry, inflight, sent, replies, origin, last, logged>>

\* ------------------------------------------------- pieces of process_query

UserTurn(q) == [role |-> "user", content |-> q]

\* faulty variant of NewMessages: the turn of the previous query is carried over
NewMessages_carried(q) == << UserTurn(query), UserTurn(q) >>

\* messages = [{"role": "user", "content": query}]
NewMessages(q) == << UserTurn(q) >>

\* available_tools, then the conversion to the endpoint's format; the dict
\* built from a tool entry always has the three keys, so the KeyError
\* handler never runs
RECURSIVE ConvertTools(_)
ConvertTools(tools) ==
    IF tools = <<>> THEN <<>>
    ELSE LET tool == [name |-> tools[1].name, description |-> tools[1].description,
                      input_schema |-> tools[1].inputSchema]
         IN << [type |-> "function",
                function |-> [name |-> tool.name, description |-> tool.description,
                              parameters |-> tool.input_schema]] >>
            \o ConvertTools(Tail(tools))

\* what the conversion loop prints: one message for each available_tools
\* dict that lacks a key (print in the except KeyError clause)
RECURSIVE ConversionErrors(_)
ConversionErrors(tools) ==
    IF tools = <<>> THEN <<>>
    ELSE LET tool == [name |-> tools[1].name, description |-> tools[1].description,
                      input_schema |-> tools[1].inputSchema]
         IN (IF {"name", "description", "input_schema"} \subseteq DOMAIN tool
             THEN <<>>
             ELSE << "Error converting tool " \o tool.name >>)
            \o ConversionErrors(Tail(tools))

ListToolsRequest == [op |-> "list_tools"]

\* data: the body of the initial completion request
InitialRequest(msgs, tools) ==
    [op |-> "post", model |-> "llama-3.3-70b-versatile", messages |-> msgs,
     tools |-> tools, tool_choice |-> "auto", max_tokens |-> 1000]

\* faulty variant of FollowupRequest: the follow-up offers the tools again
FollowupRequest_withTools(msgs) == InitialRequest(msgs, groq_tools)

\* followup: the body of the follow-up completion request
FollowupRequest(msgs) ==
    [op |-> "post", model |-> "llama-3.3-70b-versatile", messages |-> msgs,
     max_tokens |-> 1000]

CallToolRequest(tool_name, tool_args) ==
    [op |-> "call_tool", name |-> tool_name, arguments |-> tool_args]

\* error.get('error', 'Unknown error') inside the exception text
GroqApiError(body) ==
    "Groq API error: " \o (IF "error" \in DOMAIN body THEN body.error ELSE "Unknown error")

\* call["function"].get("arguments")
ArgsRaw(call) ==
    IF "arguments" \in DOMAIN call.function THEN call.function.arguments ELSE None

\* faulty variant of ParseArgs: no fallback to the raw value
ParseArgs_strict(args_raw) == json_loads(args_raw)

\* try: tool_args = json.loads(args_raw)  except Exception: tool_args = args_raw
ParseArgs(args_raw) ==
    IF json_loads(args_raw) = JSONDecodeError THEN args_raw ELSE json_loads(args_raw)

\* rc = getattr(result, 'content', None); rc.text if it has one
RawContent(result) ==
    LET rc == IF "content" \in DOMAIN result THEN result.content ELSE None
    IN IF "text" \in DOMAIN rc THEN rc.text ELSE rc

\* getattr(result, 'error', False)
ErrorFlag(result) == IF "error" \in DOMAIN result THEN result.error ELSE FALSE

\* pretty-print JSON if possible, else str(raw_content)
Formatted(raw_content) ==
    IF json_loads(raw_content) = JSONDecodeError THEN str(raw_content)
    ELSE json_dumps_indent2(json_loads(raw_content))

\* faulty variant of ToolTurn: the turn does not say which call it answers
ToolTurn_withoutId(call, tool_name, formatted) ==
    [role |-> "tool", name |-> tool_name, content |-> formatted]

ToolTurn(call, tool_name, formatted) ==
    [role |-> "tool", tool_call_id |-> call.id, name |-> tool_name, content |-> formatted]

\* faulty variant of ToolErrorLine: the error payload is pretty-printed
ToolErrorLine_pretty(raw_content) == "Tool error: " \o Formatted(raw_content)

ToolErrorLine(raw_content) == "Tool error: " \o str(raw_content)

ToolResultLine(tool_name, formatted) == "Tool " \o tool_name \o " result:\n" \o formatted

FinalAnalysisLine(fa) == "Final analysis:\n" \o fa

ToolFailedLine(e) == "Tool execution failed: " \o e

\* faulty variant of CriticalLine: the failure is reported as a tool's
CriticalLine_asToolFailure(e) == ToolFailedLine(e)

CriticalLine(e) == "Critical error processing query: " \o e

\* faulty variant of Awaited: the code goes on without waiting for the answer
Awaited_not(n) == inflight

\* the request at position n of sent has been answered
Awaited(n) == inflight \ {n}

\* ----------------------------------------------------- control of a query

\* return "\n".join(final_text); the query ends in state end, Done or Aborted
Return(msgs, ft, org, snt, infl, k, end) ==
    /\ pc' = end
    /\ output' = join(ft)
    /\ messages' = msgs
    /\ final_text' = ft
    /\ origin' = org
    /\ sent' = snt
    /\ inflight' = infl
    /\ idx' = k

\* "\n".join(final_text) raises TypeError on an item that is not a string;
\* the return statement is outside the try, so the exception leaves
\* process_query: no value is returned and the transcript is lost
JoinRaises(snt, infl) ==
    /\ pc' = "Raised"
    /\ messages' = messages
    /\ final_text' = <<>>
    /\ origin' = <<>>
    /\ sent' = snt
    /\ inflight' = infl
    /\ idx' = 0
    /\ UNCHANGED output

\* faulty variant of OuterExcept: the critical line is put before the others
OuterExcept_prepends(msgs, ft, org, snt, infl, k, e) ==
    Return(msgs, << CriticalLine(e) >> \o ft, << 0 >> \o org, snt, infl, k, "Aborted")

\* the outer handler: except Exception as e, then the return
OuterExcept(msgs, ft, org, snt, infl, k, e) ==
    Return(msgs, Append(ft, CriticalLine(e)), Append(org, 0), snt, infl, k, "Aborted")

\* the for loop over tool_calls from call k on, up to the next await:
\* the call's name and arguments are read, the arguments parsed, and
\* call_tool is issued; after the last call the query returns
ForLoop(calls, k, msgs, ft, org, snt, infl) ==
    IF k > Len(calls) THEN Return(msgs, ft, org, snt, infl, k, "Done")
    ELSE IF "function" \notin DOMAIN calls[k]
    THEN OuterExcept(msgs, ft, org, snt, infl, k, "'function'")
    ELSE LET call == calls[k]
             tool_name == call.function.name
             tool_args == ParseArgs(ArgsRaw(call))
         IN /\ pc' = "call_tool"
            /\ idx' = k
            /\ messages' = msgs
            /\ final_text' = ft
            /\ origin' = org
            /\ sent' = Append(snt, CallToolRequest(tool_name, tool_args))
            /\ inflight' = infl \cup {Len(snt) + 1}
            /\ UNCHANGED output

\* faulty variant of InnerExcept: the exception leaves the loop
InnerExcept_aborts(e) ==
    OuterExcept(messages, final_text, origin, sent, Awaited(Len(sent)), idx, e)

\* faulty variant of InnerExcept: the tool turns are taken back
InnerExcept_dropsTurns(e) ==
    ForLoop(tool_calls.v, idx + 1, << messages[1] >>, Append(final_text, ToolFailedLine(e)),
            Append(origin, idx), sent, Awaited(Len(sent)))

\* the inner handler: except Exception as e, then the next call
InnerExcept(e) ==
    ForLoop(tool_calls.v, idx + 1, messages, Append(final_text, ToolFailedLine(e)),
            Append(origin, idx), sent, Awaited(Len(sent)))

\* ------------------------------------------------------------------ actions

Init ==
    /\ pc = "prompt"
    /\ query = ""
    /\ messages = <<>>
    /\ final_text = <<>>
    /\ groq_tools = <<>>
    /\ tool_calls = None
    /\ idx = 0
    /\ output = ""
    /\ registry \in Registries
    /\ inflight = {}
    /\ sent = <<>>
    /\ replies = <<>>
    /\ origin = <<>>
    /\ last = "none"
    /\ logged = <<>>

\* chat_loop reads a query and calls process_query, which runs to its first
\* await, session.list_tools()
ReadQuery ==
    /\ pc = "prompt"
    /\ \E q \in Queries :
        /\ query' = q
        /\ messages' = NewMessages(q)
    /\ final_text' = <<>>
    /\ origin' = <<>>
    /\ groq_tools' = <<>>
    /\ tool_calls' = None
    /\ idx' = 0
    /\ sent' = << ListToolsRequest >>
    /\ replies' = <<>>
    /\ inflight' = {1}
    /\ pc' = "list_tools"
    /\ logged' = <<>>
    /\ UNCHANGED <<output, registry, last>>

\* list_tools returns: the schema is converted and the initial completion
\* request is posted
ListToolsReturns ==
    /\ pc = "list_tools"
    /\ LET tools == ConvertTools(registry)
       IN /\ groq_tools' = tools
          /\ sent' = Append(sent, InitialRequest(messages, tools))
    /\ replies' = Append(replies, [tools |-> registry])
    /\ inflight' = Awaited(Len(sent)) \cup {Len(sent) + 1}
    /\ pc' = "initial"
    /\ logged' = ConversionErrors(registry)
    /\ UNCHANGED <<query, messages, final_text, tool_calls, idx, output, registry, origin,
                   last>>

\* list_tools raises (the channel fails)
ListToolsRaises ==
    /\ pc = "list_tools"
    /\ replies' = Append(replies, [raised |-> ChannelError])
    /\ OuterExcept(messages, final_text, origin, sent, Awaited(Len(sent)), idx, ChannelError)
    /\ UNCHANGED <<query, groq_tools, tool_calls, registry, last, logged>>

\* the initial completion request gets a response whose status is not 200
InitialNon200 ==
    /\ pc = "initial"
    /\ \E body \in ErrorBodies :
        /\ replies' = Append(replies, [status |-> 500, body |-> body])
        /\ OuterExcept(messages, final_text, origin, sent, Awaited(Len(sent)), idx,
                       GroqApiError(body))
    /\ UNCHANGED <<query, groq_tools, tool_calls, registry, last, logged>>

\* the initial completion request raises (the HTTP client fails)
InitialRaises ==
    /\ pc = "initial"
    /\ replies' = Append(replies, [raised |-> HttpError])
    /\ OuterExcept(messages, final_text, origin, sent, Awaited(Len(sent)), idx, HttpError)
    /\ UNCHANGED <<query, groq_tools, tool_calls, registry, last, logged>>

\* faulty variant of Content: the content is not kept
Content_dropped(msg) == <<>>

\* msg.get("content") when it is truthy
Content(msg) ==
    IF "content" \in DOMAIN msg /\ msg.content.t = "str" /\ msg.content.v # ""
    THEN << msg.content.v >> ELSE <<>>

\* msg.get("content") is truthy and not a string: it is appended to
\* final_text as it is
ContentNotText(msg) ==
    "content" \in DOMAIN msg /\ msg.content.t = "list" /\ msg.content.v # <<>>

\* msg.get("tool_calls", [])
ToolCalls(msg) == IF "tool_calls" \in DOMAIN msg THEN msg.tool_calls ELSE List(<<>>)

\* the initial completion request gets a 200 response: the content is
\* appended and the loop over the tool calls starts; the message whose
\* content is not a string carries no tool call, so the loop is empty and
\* the join of the return statement raises
Initial200 ==
    /\ pc = "initial"
    /\ \E body \in CompletionBodies :
        /\ replies' = Append(replies, [status |-> 200, body |-> body])
        /\ IF body.choices = <<>>
           THEN /\ OuterExcept(messages, final_text, origin, sent, Awaited(Len(sent)), idx,
                               "list index out of range")
                /\ UNCHANGED tool_calls
           ELSE LET msg == body.choices[1].message
                    ft == final_text \o Content(msg)
                    org == origin \o [j \in 1..Len(Content(msg)) |-> 0]
                IN /\ tool_calls' = ToolCalls(msg)
                   /\ IF ContentNotText(msg) /\ ToolCalls(msg) = List(<<>>)
                      THEN JoinRaises(sent, Awaited(Len(sent)))
                      ELSE IF ToolCalls(msg) = None
                      THEN OuterExcept(messages, ft, org, sent, Awaited(Len(sent)), idx,
                                       "'NoneType' object is not iterable")
                      ELSE ForLoop(ToolCalls(msg).v, 1, messages, ft, org, sent,
                                   Awaited(Len(sent)))
    /\ UNCHANGED <<query, groq_tools, registry, last, logged>>

\* call_tool raises
CallToolRaises ==
    /\ pc = "call_tool"
    /\ replies' = Append(replies, [raised |-> ChannelError])
    /\ InnerExcept(ChannelError)
    /\ UNCHANGED <<query, groq_tools, tool_calls, registry, last, logged>>

\* a reply that carries the error flag: one line, then the next call
ToolSignaledError(raw_content) ==
    ForLoop(tool_calls.v, idx + 1, messages, Append(final_text, ToolErrorLine(raw_content)),
            Append(origin, idx), sent, Awaited(Len(sent)))

\* faulty variant of ToolSucceeded: the follow-up body is built before the
\* tool turn is appended
ToolSucceeded_turnLate(raw_content) ==
    LET call == tool_calls.v[idx]
        tool_name == call.function.name
        formatted == Formatted(raw_content)
    IN /\ final_text' = Append(final_text, ToolResultLine(tool_name, formatted))
       /\ origin' = Append(origin, idx)
       /\ messages' = Append(messages, ToolTurn(call, tool_name, formatted))
       /\ sent' = Append(sent, FollowupRequest(messages))
       /\ inflight' = Awaited(Len(sent)) \cup {Len(sent) + 1}
       /\ pc' = "followup"
       /\ UNCHANGED <<idx, output>>

\* a reply without error flag: the result line, the tool turn, and the
\* follow-up request is posted
ToolSucceeded(raw_content) ==
    LET call == tool_calls.v[idx]
        tool_name == call.function.name
        formatted == Formatted(raw_content)
        msgs == Append(messages, ToolTurn(call, tool_name, formatted))
    IN /\ final_text' = Append(final_text, ToolResultLine(tool_name, formatted))
       /\ origin' = Append(origin, idx)
       /\ messages' = msgs
       /\ sent' = Append(sent, FollowupRequest(msgs))
       /\ inflight' = Awaited(Len(sent)) \cup {Len(sent) + 1}
       /\ pc' = "followup"
       /\ UNCHANGED <<idx, output>>

\* call_tool returns a reply
CallToolReturns ==
    /\ pc = "call_tool"
    /\ \E result \in ToolResults(sent[Len(sent)].name) :
        /\ replies' = Append(replies, [result |-> result])
        /\ IF ErrorFlag(result)
           THEN ToolSignaledError(RawContent(result))
           ELSE ToolSucceeded(RawContent(result))
    /\ UNCHANGED <<query, groq_tools, tool_calls, registry, last, logged>>

\* faulty variant of FollowupNon200: the refusal reaches the outer handler
FollowupNon200_aborts ==
    /\ pc = "followup"
    /\ \E body \in FollowupErrorBodies :
        /\ replies' = Append(replies, [status |-> 500, body |-> body])
        /\ OuterExcept(messages, final_text, origin, sent, Awaited(Len(sent)), idx,
                       GroqApiError(body))
    /\ UNCHANGED <<query, groq_tools, tool_calls, registry, last, logged>>

\* the follow-up request gets a response whose status is not 200
FollowupNon200 ==
    /\ pc = "followup"
    /\ \E body \in FollowupErrorBodies :
        /\ replies' = Append(replies, [status |-> 500, body |-> body])
        /\ InnerExcept(GroqApiError(body))
    /\ UNCHANGED <<query, groq_tools, tool_calls, registry, last, logged>>

\* faulty variant of FollowupRaises: the exception reaches the outer handler
FollowupRaises_aborts ==
    /\ pc = "followup"
    /\ replies' = Append(replies, [raised |-> HttpError])
    /\ OuterExcept(messages, final_text, origin, sent, Awaited(Len(sent)), idx, HttpError)
    /\ UNCHANGED <<query, groq_tools, tool_calls, registry, last, logged>>

\* the follow-up request raises
FollowupRaises ==
    /\ pc = "followup"
    /\ replies' = Append(replies, [raised |-> HttpError])
    /\ InnerExcept(HttpError)
    /\ UNCHANGED <<query, groq_tools, tool_calls, registry, last, logged>>

\* faulty variant of Followup200: a response without choices is asked for again
Followup200_retries ==
    /\ pc = "followup"
    /\ \E fu_data \in FollowupBodies :
        /\ replies' = Append(replies, [status |-> 200, body |-> fu_data])
        /\ IF fu_data.choices = <<>>
           THEN /\ sent' = Append(sent, FollowupRequest(messages))
                /\ inflight' = Awaited(Len(sent)) \cup {Len(sent) + 1}
                /\ UNCHANGED <<pc, idx, messages, final_text, origin, output>>
           ELSE IF "message" \notin DOMAIN fu_data.choices[1]
           THEN InnerExcept("'message'")
           ELSE LET fa == Content(fu_data.choices[1].message)
                IN ForLoop(tool_calls.v, idx + 1, messages,
                           final_text \o [j \in 1..Len(fa) |-> FinalAnalysisLine(fa[j])],
                           origin \o [j \in 1..Len(fa) |-> idx], sent, Awaited(Len(sent)))
    /\ UNCHANGED <<query, groq_tools, tool_calls, registry, last, logged>>

\* the follow-up request gets a 200 response
Followup200 ==
    /\ pc = "followup"
    /\ \E fu_data \in FollowupBodies :
        /\ replies' = Append(replies, [status |-> 200, body |-> fu_data])
        /\ IF fu_data.choices = <<>>
           THEN ForLoop(tool_calls.v, idx + 1, messages, final_text, origin, sent,
                        Awaited(Len(sent)))
           ELSE IF "message" \notin DOMAIN fu_data.choices[1]
           THEN InnerExcept("'message'")
           ELSE LET fa == Content(fu_data.choices[1].message)
                IN ForLoop(tool_calls.v, idx + 1, messages,
                           final_text \o [j \in 1..Len(fa) |-> FinalAnalysisLine(fa[j])],
                           origin \o [j \in 1..Len(fa) |-> idx], sent, Awaited(Len(sent)))
    /\ UNCHANGED <<query, groq_tools, tool_calls, registry, last, logged>>

\* chat_loop prints the answer, or "Error: ..." when process_query raised,
\* and prompts again; the locals of the call and the histories of the query
\* end with it
PrintAnswer ==
    /\ pc \in {"Done", "Aborted", "Raised"}
    /\ pc' = "prompt"
    /\ last' = pc
    /\ output' = ""
    /\ messages' = <<>>
    /\ final_text' = <<>>
    /\ groq_tools' = <<>>
    /\ tool_calls' = None
    /\ idx' = 0
    /\ sent' = <<>>
    /\ replies' = <<>>
    /\ origin' = <<>>
    /\ logged' = <<>>
    /\ UNCHANGED <<query, registry, inflight>>

\* between two queries the remote process's tool list may change
RegistryChanges ==
    /\ pc = "prompt"
    /\ registry' \in Registries \ {registry}
    /\ UNCHANGED <<pc, query, messages, final_text, groq_tools, tool_calls, idx, output,
                   inflight, sent, replies, origin, last, logged>>

Next ==
    \/ ReadQuery
    \/ ListToolsReturns
    \/ ListToolsRaises
    \/ InitialNon200
    \/ InitialRaises
    \/ Initial200
    \/ CallToolRaises
    \/ CallToolReturns
    \/ FollowupNon200
    \/ FollowupRaises
    \/ Followup200
    \/ PrintAnswer
    \/ RegistryChanges

Spec == Init /\ [][Next]_vars

\* a request that is outstanding is answered or fails
RequestCompletes ==
    \/ ListToolsReturns
    \/ ListToolsRaises
    \/ InitialNon200
    \/ InitialRaises
    \/ Initial200
    \/ CallToolRaises
    \/ CallToolReturns
    \/ FollowupNon200
    \/ FollowupRaises
    \/ Followup200

\* every I/O request eventually returns or fails
FairSpec == Spec /\ WF_vars(RequestCompletes)

TypeOK ==
    /\ pc \in {"prompt", "list_tools", "initial", "call_tool", "followup", "Done", "Aborted",
              "Raised"}
    /\ last \in {"none", "Done", "Aborted", "Raised"}
    /\ Len(origin) = Len(final_text)

\* --------------------------------------------- what the histories record

\* the initial completion request was answered 200 with a message
InitialSucceeded ==
    /\ Len(replies) >= 2
    /\ "status" \in DOMAIN replies[2]
    /\ replies[2].status = 200
    /\ Len(replies[2].body.choices) > 0

\* the initial completion request was answered with a status other than 200
InitialRefused ==
    /\ Len(replies) >= 2
    /\ "status" \in DOMAIN replies[2]
    /\ replies[2].status # 200

InitialMsg == replies[2].body.choices[1].message

\* the assistant's textual content in the initial response ("" when none)
AssistantText ==
    IF "content" \in DOMAIN InitialMsg /\ InitialMsg.content.t = "str"
    THEN InitialMsg.content.v ELSE ""

\* the initial response carried a batch of tool calls (possibly empty)
BatchReceived ==
    /\ InitialSucceeded
    /\ ("tool_calls" \in DOMAIN InitialMsg => InitialMsg.tool_calls.t = "list")

\* the tool calls received, in the order received
Batch == IF "tool_calls" \in DOMAIN InitialMsg THEN InitialMsg.tool_calls.v ELSE <<>>

WellFormed(call) == "function" \in DOMAIN call

\* positions in sent of the requests of one kind
CallToolAt == { j \in 1..Len(sent) : sent[j].op = "call_tool" }
PostAt == { j \in 1..Len(sent) : sent[j].op = "post" }

\* the tool call (position in the batch) the request at position j is for
CallOf(j) == Cardinality({ i \in CallToolAt : i <= j })

\* positions in final_text of the lines of call k
LinesOf(k) == { p \in 1..Len(final_text) : origin[p] = k }

Ended == pc \in {"Done", "Aborted"}

NoNewline(s) == \A i \in 1..Len(s) : SubSeq(s, i, i) # "\n"

\* ------------------------------------------------------------------ claims

\* C1: when the initial completion succeeds and returns zero tool calls,
\* process_query returns exactly the assistant's textual content: the query
\* ends Done, nothing else is in the answer, and the only requests issued
\* are the registry fetch and the initial completion (no tool invocation,
\* no follow-up).
C1_ZeroToolCalls ==
    (Ended /\ BatchReceived /\ Len(Batch) = 0)
        => /\ pc = "Done"
           /\ output = AssistantText
           /\ Len(sent) = 2
           /\ CallToolAt = {}

C1_Witness ==
    /\ pc = "Done"
    /\ BatchReceived
    /\ Len(Batch) = 0
    /\ output = "Here are the patients."

\* C2: for every batch of N >= 0 well-formed tool calls, the per-call lines
\* are in the order the calls were received, the tools are invoked in that
\* order, one invocation per call (no reordering, no deduplication), and
\* whatever fails at call k (dispatch exception, error-flagged reply, failed
\* follow-up) every call 1..N is invoked and leaves its own line, opened by
\* its result line, its tool-error line or its failure line.
C2_OrderPreserved ==
    /\ \A a, b \in 1..Len(origin) :
         (a < b /\ origin[a] > 0 /\ origin[b] > 0) => origin[a] <= origin[b]
    /\ \A j \in CallToolAt :
         /\ BatchReceived
         /\ CallOf(j) <= Len(Batch)
         /\ WellFormed(Batch[CallOf(j)])
         /\ sent[j].name = Batch[CallOf(j)].function.name
    /\ (Ended /\ BatchReceived /\ \A k \in 1..Len(Batch) : WellFormed(Batch[k]))
         => /\ pc = "Done"
            /\ Cardinality(CallToolAt) = Len(Batch)
            /\ \A k \in 1..Len(Batch) :
                 /\ LinesOf(k) # {}
                 /\ LET first == final_text[CHOOSE p \in LinesOf(k) : \A r \in LinesOf(k) : p <= r]
                    IN \/ StartsWith(first, "Tool " \o Batch[k].function.name \o " result:")
                       \/ StartsWith(first, "Tool error: ")
                       \/ StartsWith(first, "Tool execution failed: ")

\* a batch of two whose first call raised in dispatch and whose second call
\* returned a result
C2_Witness ==
    /\ pc = "Done"
    /\ BatchReceived
    /\ Len(Batch) = 2
    /\ "raised" \in DOMAIN replies[3]
    /\ \E p \in LinesOf(2) : StartsWith(final_text[p], "Tool list_patients_tool result:")
    /\ \E p \in LinesOf(1) : StartsWith(final_text[p], "Tool execution failed: ")

\* C3: when the initial completion request gets a non-2xx response the query
\* is Aborted at once and its whole result is one line beginning
\* "Critical error processing query:"; no content, tool result or follow-up
\* line is in it and no tool is invoked.
C3_InitialRefusedAborts ==
    InitialRefused
        => /\ pc = "Aborted"
           /\ Len(final_text) = 1
           /\ output = final_text[1]
           /\ StartsWith(output, "Critical error processing query:")
           /\ NoNewline(output)
           /\ Len(sent) = 2
           /\ CallToolAt = {}

C3_Witness ==
    /\ pc = "Aborted"
    /\ InitialRefused
    /\ output = "Critical error processing query: Groq API error: rate_limit_exceeded"

\* the reply at position j of replies is a response with a status other
\* than 200
Refused(j) ==
    /\ j <= Len(replies)
    /\ "status" \in DOMAIN replies[j]
    /\ replies[j].status # 200

\* C4 as stated: a non-2xx response to any completion request of the query,
\* initial or follow-up, aborts the query: the answer is exactly one
\* critical-error line, the lines accumulated earlier are discarded and no
\* later tool call of the batch is invoked.
C4_AnyRefusalAborts ==
    \A j \in PostAt :
        Refused(j)
            => /\ pc = "Aborted"
               /\ Len(final_text) = 1
               /\ StartsWith(final_text[1], "Critical error processing query:")
               /\ \A i \in CallToolAt : i < j

\* a step in which a completion request is answered with a status other
\* than 200
RefusedStep ==
    /\ pc \in {"initial", "followup"}
    /\ Len(replies') = Len(replies) + 1
    /\ "status" \in DOMAIN replies'[Len(replies')]
    /\ replies'[Len(replies')].status # 200

\* C4 as amended: a non-2xx response to the initial completion request
\* aborts the query, whose answer is exactly one critical-error line, and no
\* tool is invoked.  A non-2xx response to the follow-up request of call k
\* does not abort the query: one "Tool execution failed:" line is appended
\* after that call's result line, every line accumulated earlier is kept, the
\* history is unchanged, and the loop goes on to call k+1 (or, after the last
\* call, the query ends Done with all the lines).
C4_RefusalByRequest ==
    [][ RefusedStep =>
          IF pc = "initial"
          THEN /\ pc' = "Aborted"
               /\ Len(final_text') = 1
               /\ StartsWith(final_text'[1], "Critical error processing query:")
               /\ output' = final_text'[1]
               /\ sent' = sent
          ELSE /\ Len(final_text') >= Len(final_text) + 1
               /\ SubSeq(final_text', 1, Len(final_text)) = final_text
               /\ StartsWith(final_text[Len(final_text)],
                             "Tool " \o Batch[idx].function.name \o " result:")
               /\ StartsWith(final_text'[Len(final_text) + 1],
                             "Tool execution failed: Groq API error:")
               /\ messages' = messages
               /\ IF idx = Len(Batch)
                  THEN /\ pc' = "Done"
                       /\ Len(final_text') = Len(final_text) + 1
                       /\ output' = join(final_text')
                       /\ sent' = sent
                  ELSE WellFormed(Batch[idx + 1])
                         => /\ pc' = "call_tool"
                            /\ Len(final_text') = Len(final_text) + 1
                            /\ Len(sent') = Len(sent) + 1
                            /\ sent'[Len(sent')].op = "call_tool"
                            /\ sent'[Len(sent')].name = Batch[idx + 1].function.name
      ]_vars

\* the follow-up of the first call was refused and the second call is
\* being invoked, the first call's result line still in the transcript
C4_Witness ==
    /\ pc = "call_tool"
    /\ idx = 2
    /\ Refused(4)
    /\ sent[4].op = "post"
    /\ sent[5].op = "call_tool"
    /\ \E p \in LinesOf(1) : StartsWith(final_text[p], "Tool fetch_patient_data_tool result:")

\* the reply at position j of replies is a tool reply, with or without the
\* error flag
Replied(j) == j <= Len(replies) /\ "result" \in DOMAIN replies[j]

Flagged(j) ==
    Replied(j) /\ "error" \in DOMAIN replies[j].result /\ replies[j].result.error

\* the text of the content of the tool reply at position j
ReplyText(j) ==
    LET c == replies[j].result.content
    IN IF "text" \in DOMAIN c THEN c.text.v ELSE c.v

ToolTurnsAt == { p \in 1..Len(messages) : messages[p].role = "tool" }

\* C5: when the reply to a tool call carries the error flag, the only line
\* of that call is "Tool error: <reply content>" with the content as
\* received (not pretty-printed), the request after it is not a follow-up
\* completion, and no tool turn enters the history for it (the history holds
\* one tool turn per unflagged reply).
C5_ErrorFlaggedReply ==
    /\ \A j \in CallToolAt :
         Flagged(j)
            => /\ Cardinality(LinesOf(CallOf(j))) = 1
               /\ \A p \in LinesOf(CallOf(j)) : final_text[p] = "Tool error: " \o ReplyText(j)
               /\ (j < Len(sent) => sent[j + 1].op = "call_tool")
               /\ (j = Len(sent) => Ended)
    /\ Cardinality(ToolTurnsAt) = Cardinality({ j \in CallToolAt : Replied(j) /\ ~Flagged(j) })

\* two flagged replies, one whose content is JSON: both lines carry the
\* content as received, and no follow-up was requested
C5_Witness ==
    /\ pc = "Done"
    /\ final_text = << "Tool error: Patient PT-9999 not found",
                       "Tool error: {\"patient_id\":\"PT-1001\"}" >>
    /\ Flagged(3)
    /\ Flagged(4)
    /\ PostAt = {2}
    /\ ToolTurnsAt = {}

\* C6: every tool call is invoked with json.loads of its raw argument string
\* when that parses, and with the raw value itself (the malformed string, or
\* None when the arguments are absent) when it does not; a parse failure
\* neither skips the call nor aborts the query: the calls up to the first
\* entry without "function" are all invoked.
C6_ArgumentsPassed ==
    /\ \A j \in CallToolAt :
         LET fn == Batch[CallOf(j)].function
             raw == IF "arguments" \in DOMAIN fn THEN fn.arguments ELSE None
         IN IF raw.t = "str" /\ json_loads(raw).t = "obj"
            THEN sent[j].arguments = json_loads(raw)
            ELSE sent[j].arguments = raw
    /\ (Ended /\ BatchReceived)
         => \A k \in 1..Len(Batch) :
               (\A m \in 1..k : WellFormed(Batch[m])) => \E j \in CallToolAt : CallOf(j) = k

\* a batch of a call with malformed arguments and a call without arguments:
\* both are invoked, with the string as received and with None
C6_Witness ==
    /\ pc = "Done"
    /\ Len(Batch) = 2
    /\ sent[3].op = "call_tool"
    /\ sent[3].arguments = Str("{invalid json")
    /\ \E j \in CallToolAt : j > 3 /\ sent[j].arguments = None

\* C7: in every history sent to the completion endpoint, each tool turn is
\* immediately preceded by an assistant turn whose tool-call request emitted
\* the tool_call_id the tool turn references.
C7_ToolTurnAfterAssistantTurn ==
    \A j \in PostAt :
        \A p \in 1..Len(sent[j].messages) :
            sent[j].messages[p].role = "tool"
                => /\ p > 1
                   /\ sent[j].messages[p - 1].role = "assistant"
                   /\ "tool_calls" \in DOMAIN sent[j].messages[p - 1]
                   /\ \E c \in 1..Len(sent[j].messages[p - 1].tool_calls) :
                        sent[j].messages[p - 1].tool_calls[c].id
                            = sent[j].messages[p].tool_call_id

\* C8: the first completion request of a query carries the tool schema (one
\* function per registry entry, in registry order) and tool_choice; every
\* later completion request follows a tool invocation and carries the turn
\* history with no tool schema and no tool_choice.
C8_SchemaOnlyOnInitial ==
    \A j \in PostAt :
        IF j = 2
        THEN /\ "tools" \in DOMAIN sent[j]
             /\ "tool_choice" \in DOMAIN sent[j]
             /\ sent[j].tool_choice = "auto"
             /\ Len(sent[j].tools) = Len(registry)
             /\ \A i \in 1..Len(registry) : sent[j].tools[i].function.name = registry[i].name
        ELSE /\ j > 2
             /\ sent[j - 1].op = "call_tool"
             /\ "tools" \notin DOMAIN sent[j]
             /\ "tool_choice" \notin DOMAIN sent[j]
             /\ Len(sent[j].messages) >= 2
             /\ sent[j].messages[Len(sent[j].messages)].role = "tool"

\* the follow-up of a second call is outstanding
C8_Witness ==
    /\ pc = "followup"
    /\ idx = 2
    /\ Cardinality(PostAt) = 3
    /\ "tools" \notin DOMAIN sent[Len(sent)]

\* C9: nothing of a query persists to the next.  Whatever came before, a
\* query's first request is the registry fetch, its history starts as the
\* single user turn holding that query and only ever gains tool turns, its
\* transcript is empty until the initial completion answers, and its initial
\* completion request carries that one-turn history and the schema of the
\* registry as the remote process has it now.
C9_NothingPersists ==
    pc # "prompt"
        => /\ sent[1].op = "list_tools"
           /\ \A j \in 2..Len(sent) : sent[j].op # "list_tools"
           /\ messages[1] = [role |-> "user", content |-> query]
           /\ \A p \in 2..Len(messages) : messages[p].role = "tool"
           /\ (pc \in {"list_tools", "initial"}
                 => messages = << [role |-> "user", content |-> query] >> /\ final_text = <<>>)
           /\ Len(sent) >= 2
                 => /\ sent[2].op = "post"
                    /\ sent[2].messages = << [role |-> "user", content |-> query] >>
                    /\ replies[1].tools = registry
                    /\ Len(sent[2].tools) = Len(registry)
                    /\ \A i \in 1..Len(registry) :
                         /\ sent[2].tools[i].function.name = registry[i].name
                         /\ sent[2].tools[i].function.description = registry[i].description
                         /\ sent[2].tools[i].function.parameters = registry[i].inputSchema

\* the initial completion request of a query that follows an aborted one
C9_Witness ==
    /\ pc = "initial"
    /\ last = "Aborted"
    /\ sent[2].messages = << [role |-> "user", content |-> "fetch PT-1001"] >>
    /\ Len(registry) = 2

\* C10: at most one request is outstanding at any point of a query, and it
\* is the one issued last: every earlier request (registry fetch, initial
\* completion, tool invocation, follow-up) has completed or failed before
\* the next one is issued, so the invocation of call k+1 starts only after
\* the follow-up of call k has been answered.
C10_OneOutstanding ==
    /\ Cardinality(inflight) <= 1
    /\ inflight = { j \in 1..Len(sent) : j > Len(replies) }
    /\ Len(replies) <= Len(sent)
    /\ (inflight # {} <=> pc \in {"list_tools", "initial", "call_tool", "followup"})

\* the second tool invocation is outstanding and the follow-up of the first
\* has been answered
C10_Witness ==
    /\ pc = "call_tool"
    /\ idx = 2
    /\ inflight = {Len(sent)}
    /\ sent[Len(sent) - 1].op = "post"
    /\ Len(replies) = Len(sent) - 1

\* a step in which the follow-up request of call idx fails: the response has
\* a status other than 200, the post raises, or the 200 body has a choice
\* without message
FollowupFailedStep ==
    /\ pc = "followup"
    /\ Len(replies') = Len(replies) + 1
    /\ LET r == replies'[Len(replies')]
       IN \/ "raised" \in DOMAIN r
          \/ "status" \in DOMAIN r /\ r.status # 200
          \/ /\ "status" \in DOMAIN r
             /\ r.status = 200
             /\ Len(r.body.choices) > 0
             /\ "message" \notin DOMAIN r.body.choices[1]

\* C11: a failure of the follow-up request of call k (non-2xx response or
\* exception) is recovered per call: exactly one "Tool execution failed:"
\* line is added, right after that call's result line, the lines accumulated
\* so far and the history are kept, the failure itself does not abort the
\* query, and the loop goes on: call k+1 is invoked next, or the query ends
\* Done after the last call.
C11_FollowupFailureRecovered ==
    [][ FollowupFailedStep =>
          LET n == Len(final_text)
          IN /\ Len(final_text') >= n + 1
             /\ SubSeq(final_text', 1, n) = final_text
             /\ origin[n] = idx
             /\ StartsWith(final_text[n], "Tool " \o Batch[idx].function.name \o " result:")
             /\ StartsWith(final_text'[n + 1], "Tool execution failed: ")
             /\ origin'[n + 1] = idx
             /\ Cardinality({ p \in 1..Len(final_text') : origin'[p] = idx }) = 2
             /\ \A p \in 1..Len(final_text') :
                  StartsWith(final_text'[p], "Critical error processing query:") => p = n + 2
             /\ messages' = messages
             /\ IF idx = Len(Batch)
                THEN pc' = "Done" /\ Len(final_text') = n + 1 /\ output' = join(final_text')
                ELSE IF WellFormed(Batch[idx + 1])
                THEN /\ pc' = "call_tool"
                     /\ idx' = idx + 1
                     /\ Len(final_text') = n + 1
                     /\ sent' = Append(sent, sent'[Len(sent')])
                     /\ sent'[Len(sent')].op = "call_tool"
                     /\ sent'[Len(sent')].name = Batch[idx + 1].function.name
                ELSE final_text'[n + 2] = "Critical error processing query: 'function'"
      ]_vars

\* the follow-up of the first call raised and the second call went through:
\* the failure line sits between the two result lines
C11_Witness ==
    /\ pc = "Done"
    /\ Len(Batch) = 2
    /\ "raised" \in DOMAIN replies[4]
    /\ Len(final_text) >= 3
    /\ StartsWith(final_text[1], "Tool fetch_patient_data_tool result:")
    /\ final_text[2] = "Tool execution failed: Cannot connect to host api.groq.com:443"
    /\ StartsWith(final_text[3], "Tool list_patients_tool result:")

\* the tool turn expected for the unflagged reply at position j: the
\* content is the reply's text, re-serialized with indent 2 when it is JSON
ExpectedToolTurn(j) ==
    LET call == Batch[CallOf(j)]
        parsed == json_loads(Str(ReplyText(j)))
    IN [role |-> "tool", tool_call_id |-> call.id, name |-> call.function.name,
        content |-> IF parsed = JSONDecodeError THEN ReplyText(j)
                    ELSE json_dumps_indent2(parsed)]

\* the request issued right after the request at position j is a follow-up
\* whose history ends with turn
FollowedUpWith(j, turn) ==
    /\ j + 1 \in PostAt
    /\ sent[j + 1].messages[Len(sent[j + 1].messages)] = turn

\* C12 as stated: for every tool call whose invocation returns a reply, with
\* or without the error flag, a tool turn (role, tool_call_id, name, content)
\* is appended to the history and a follow-up completion request is then
\* issued for that call.
C12_ToolTurnForEveryReply ==
    \A j \in CallToolAt :
        Replied(j)
            => /\ j + 1 \in PostAt
               /\ LET t == sent[j + 1].messages[Len(sent[j + 1].messages)]
                  IN /\ t.role = "tool"
                     /\ t.tool_call_id = Batch[CallOf(j)].id
                     /\ t.name = Batch[CallOf(j)].function.name

\* C12 as amended: for every tool call whose invocation returns a reply
\* without the error flag, a tool turn (role=tool, tool_call_id, name,
\* content=formatted result) is appended to the history and a follow-up
\* completion request carrying it is issued at once; for a reply with the
\* error flag no tool turn is appended and no follow-up is issued.
C12_ToolTurnForUnflaggedReply ==
    \A j \in CallToolAt :
        /\ (Replied(j) /\ ~Flagged(j)) => FollowedUpWith(j, ExpectedToolTurn(j))
        /\ Flagged(j)
             => /\ j + 1 \notin PostAt
                /\ \A i \in PostAt :
                     i > j => Cardinality({ p \in 1..Len(sent[i].messages) :
                                              sent[i].messages[p].role = "tool" })
                              = Cardinality({ h \in CallToolAt : h < i /\ Replied(h) /\ ~Flagged(h) })

\* a flagged reply to the first call and an unflagged JSON reply to the
\* second: the follow-up of the second carries the user turn and one tool
\* turn, that of the second call
C12_Witness ==
    /\ pc = "followup"
    /\ idx = 2
    /\ Flagged(3)
    /\ Replied(4)
    /\ ~Flagged(4)
    /\ sent[5].messages
         = << [role |-> "user", content |-> query],
              [role |-> "tool", tool_call_id |-> "call_2", name |-> "fetch_patient_data_tool",
               content |-> "{\n  \"id\": \"PT-1001\",\n  \"name\": \"Jane Doe\"\n}"] >>

\* the completion request issued before the one at position j
PreviousPost(j) == CHOOSE i \in PostAt : i < j /\ \A h \in PostAt : h < j => h <= i

\* the follow-up at position j was answered 200 with textual content
AnsweredWithContent(j) ==
    /\ j <= Len(replies)
    /\ "status" \in DOMAIN replies[j]
    /\ replies[j].status = 200
    /\ Len(replies[j].body.choices) > 0
    /\ "message" \in DOMAIN replies[j].body.choices[1]
    /\ replies[j].body.choices[1].message.content.t = "str"

\* C13: for a tool call that returns a reply without error flag the steps
\* come in this order: the invocation, the "Tool <name> result:" line, the
\* tool turn, the follow-up request, then the "Final analysis:" line when the
\* follow-up returns content.  While the follow-up is outstanding the result
\* line is the last line of the transcript; the history sent with it is the
\* history of the previous completion request of the query with this call's
\* tool turn appended, nothing changed or removed.
C13_StepsInOrder ==
    \A j \in PostAt :
        j > 2 =>
          LET k == CallOf(j)
              turn == ExpectedToolTurn(j - 1)
              first == CHOOSE p \in LinesOf(k) : \A r \in LinesOf(k) : p <= r
          IN /\ j - 1 \in CallToolAt
             /\ Replied(j - 1)
             /\ ~Flagged(j - 1)
             /\ sent[j].messages = Append(sent[PreviousPost(j)].messages, turn)
             /\ LinesOf(k) # {}
             /\ final_text[first] = "Tool " \o turn.name \o " result:\n" \o turn.content
             /\ (j > Len(replies) => LinesOf(k) = {first} /\ first = Len(final_text))
             /\ AnsweredWithContent(j)
                  => /\ LinesOf(k) = {first, first + 1}
                     /\ final_text[first + 1]
                          = "Final analysis:\n" \o replies[j].body.choices[1].message.content.v

\* Scenario B: one call to fetch_patient_data_tool whose JSON reply is shown
\* with 2-space indentation, followed by the analysis of the follow-up
C13_Witness ==
    /\ pc = "Done"
    /\ Len(Batch) = 1
    /\ final_text
         = << "Tool fetch_patient_data_tool result:\n{\n  \"id\": \"PT-1001\",\n  \"name\": \"Jane Doe\"\n}",
              "Final analysis:\nJane Doe is stable." >>
    /\ Len(sent[4].messages) = 2

\* a registry entry with none of its fields missing: name and inputSchema
\* are there in every snapshot, the optional description reaches the client
\* as None when the remote entry has none
Complete(entry) == entry.description # None

\* the tool list the remote process returned for this query
Listed == replies[1].tools

\* C14: when an entry of the tool registry is malformed (a field is
\* missing), that entry alone is dropped from the schema offered to the
\* completion endpoint: the listing is not aborted, the initial completion
\* request is issued, and it offers exactly the well-formed entries, in
\* registry order.
C14_MalformedEntryDropped ==
    (Len(replies) >= 1 /\ "tools" \in DOMAIN replies[1])
        => /\ Len(sent) >= 2
           /\ sent[2].op = "post"
           /\ LET kept == SelectSeq(Listed, Complete)
              IN /\ Len(sent[2].tools) = Len(kept)
                 /\ \A i \in 1..Len(kept) : sent[2].tools[i].function.name = kept[i].name

\* the tool invocations whose arguments text could not be parsed
UnparsableAt ==
    { j \in CallToolAt :
        LET args_raw == ArgsRaw(Batch[CallOf(j)])
        IN args_raw.t = "str" /\ json_loads(args_raw) = JSONDecodeError }

\* the requests that failed: the channel or the transport raised, the
\* endpoint answered with a status other than 200, or the tool reply
\* carried the error flag
FailedAt ==
    { j \in 1..Len(replies) : "raised" \in DOMAIN replies[j] \/ Refused(j) \/ Flagged(j) }

\* the transcript lines that report an error
ErrorLines ==
    { p \in 1..Len(final_text) :
        \/ StartsWith(final_text[p], "Tool error: ")
        \/ StartsWith(final_text[p], "Tool execution failed: ")
        \/ StartsWith(final_text[p], "Critical error processing query:") }

\* C15 as stated: every error that occurs during a query (unparsable tool
\* arguments, tool execution failure, follow-up failure, upstream completion
\* failure) leaves a user-visible trace: when process_query returns there is
\* a transcript line or a printed message for each of them.
C15_EveryErrorTraced ==
    Ended => Cardinality(ErrorLines) + Len(logged)
                 >= Cardinality(UnparsableAt) + Cardinality(FailedAt)

\* the number of tool calls of the initial response (0 when there is none)
N == IF BatchReceived THEN Len(Batch) ELSE 0

\* the tool calls carried by the follow-up responses received so far
FollowupCalls ==
    UNION { { c.function.name : c \in
                { r.body.choices[1].message.tool_calls.v[i] :
                    i \in 1..Len(r.body.choices[1].message.tool_calls.v) } } :
            r \in { replies[j] : j \in { q \in PostAt : /\ q > 2
                                                       /\ q <= Len(replies)
                                                       /\ "status" \in DOMAIN replies[q]
                                                       /\ replies[q].status = 200
                                                       /\ Len(replies[q].body.choices) > 0
                                                       /\ "message" \in DOMAIN replies[q].body.choices[1]
                                                       /\ "tool_calls" \in DOMAIN replies[q].body.choices[1].message } } }

\* C16: nothing is retried and there is a single follow-up round: in one
\* query the registry is fetched at most once, the initial completion is
\* requested at most once, each of the N tool calls of the initial response
\* is dispatched at most once and gets at most one follow-up request (a
\* follow-up request directly follows the dispatch it is for), and the tool
\* calls of a follow-up response are never invoked: at most N invocations
\* and N+1 completion requests.
C16_NothingRetried ==
    /\ Cardinality({ j \in 1..Len(sent) : sent[j].op = "list_tools" }) <= 1
    /\ Cardinality({ j \in PostAt : "tools" \in DOMAIN sent[j] }) <= 1
    /\ \A j \in PostAt : "tools" \notin DOMAIN sent[j] => sent[j - 1].op = "call_tool"
    /\ \A j \in CallToolAt :
         /\ CallOf(j) <= N
         /\ sent[j].name = Batch[CallOf(j)].function.name
         /\ sent[j].name \notin FollowupCalls
    /\ Cardinality(CallToolAt) <= N
    /\ Cardinality(PostAt) <= N + 1

\* a query of two calls that ended after a follow-up response asked for a
\* further tool call: two invocations, three completion requests
C16_Witness ==
    /\ Ended
    /\ N = 2
    /\ Cardinality(CallToolAt) = 2
    /\ Cardinality(PostAt) = 3
    /\ FollowupCalls = {"check_medication_interactions_tool"}

\* process_query is running: it is suspended on a request
Running == pc \in {"list_tools", "initial", "call_tool", "followup"}

\* C17 as stated: process_query never raises an exception to its caller, and
\* provided every I/O request eventually returns or fails each query
\* eventually reaches Done or Aborted and returns a string, whatever failure
\* (registry fetch, completion, malformed completion response, tool
\* dispatch, follow-up) occurs at whatever step.
C17_AlwaysReturns ==
    /\ [](pc # "Raised")
    /\ [](Running => <>Ended)

\* positions in final_text of the critical-error lines
CriticalAt ==
    { p \in 1..Len(final_text) : StartsWith(final_text[p], "Critical error processing query:") }

\* C18: in the transcript of any query the critical-error line appears at
\* most once and, when present, is the last line; once it is appended the
\* query is over: nothing is outstanding, and no tool is invoked and no
\* completion request is issued for that query.
C18_CriticalLineLast ==
    /\ [](/\ Cardinality(CriticalAt) <= 1
          /\ \A p \in CriticalAt : p = Len(final_text)
          /\ CriticalAt # {} => (pc = "Aborted" /\ inflight = {}))
    /\ [][CriticalAt # {} => Len(sent') <= Len(sent)]_vars

\* the query was aborted in the middle of a batch: the critical line comes
\* after the lines of a call that was served
C18_Witness ==
    /\ pc = "Aborted"
    /\ Len(final_text) >= 3
    /\ CriticalAt = { Len(final_text) }
    /\ CallToolAt # {}
    /\ \E p \in LinesOf(1) : StartsWith(final_text[p], "Tool fetch_patient_data_tool result:")

IsToolTurn(turn) == turn.role = "tool"

\* a "Tool <name> result:" line
IsResultLine(line) ==
    /\ StartsWith(line, "Tool ")
    /\ ~StartsWith(line, "Tool error: ")
    /\ ~StartsWith(line, "Tool execution failed: ")

\* the tool invocations answered without the error flag so far
ServedAt == { j \in CallToolAt : Replied(j) /\ ~Flagged(j) }

\* the follow-up request at position j was refused, raised, or its answer
\* could not be read
FollowupFailed(j) ==
    /\ j \in PostAt
    /\ "tools" \notin DOMAIN sent[j]
    /\ j <= Len(replies)
    /\ \/ "raised" \in DOMAIN replies[j]
       \/ Refused(j)
       \/ /\ replies[j].status = 200
          /\ Len(replies[j].body.choices) > 0
          /\ "message" \notin DOMAIN replies[j].body.choices[1]

\* C19: at every point of a query the tool turns of the history correspond
\* one to one, in the same order, to the "Tool <name> result:" lines of the
\* transcript, and the content of each tool turn is the formatted text of
\* its result line; there is one tool turn for each invocation answered
\* without the error flag and none for a call that ended in a tool-error
\* line or in a dispatch exception, and the history sent with every
\* follow-up request holds the tool turns of all the calls served before
\* it, those whose follow-up failed included.
C19_ToolTurnsMatchResultLines ==
    LET turns == SelectSeq(messages, IsToolTurn)
        lines == SelectSeq(final_text, IsResultLine)
    IN /\ Len(turns) = Len(lines)
       /\ \A i \in 1..Len(turns) :
            lines[i] = "Tool " \o turns[i].name \o " result:\n" \o turns[i].content
       /\ Len(turns) = Cardinality(ServedAt)
       /\ \A j \in PostAt :
            "tools" \notin DOMAIN sent[j]
                => /\ sent[j].messages = SubSeq(messages, 1, Len(sent[j].messages))
                   /\ Len(SelectSeq(sent[j].messages, IsToolTurn))
                         = Cardinality({ i \in ServedAt : i < j })

\* the follow-up of the first call failed, the second call was served, and
\* the follow-up request of the second call carries both tool turns
C19_Witness ==
    /\ pc = "Done"
    /\ Cardinality(ServedAt) = 2
    /\ FollowupFailed(4)
    /\ 6 \in PostAt
    /\ Len(SelectSeq(sent[6].messages, IsToolTurn)) = 2
    /\ Len(SelectSeq(final_text, IsResultLine)) = 2
====
